---- MODULE Spec2Model ----
(***************************************************************************)
(* Glide-cone safety-altitude engine of MountainCircles.                    *)
(*                                                                         *)
(* The state is the Matrix object of src/cpp/data/Matrix.h (the cell grid, *)
(* its dimensions, the home indices), the Params the run was started with, *)
(* the FIFO deque of Matrix::calculate_safety_altitude and the position of *)
(* main in its pipeline.  Altitudes and elevations are floats in the       *)
(* source; here they are fixed-point integers, Resolution units per metre, *)
(* and hypot is rounded to the nearest 1/Resolution of a cell.             *)
(***************************************************************************)
EXTENDS Integers, Sequences, FiniteSets, TLC

VARIABLES
    pc,        \* position of main: which call of the pipeline comes next
    params,    \* Params: distSol, securite, nodataltitude, cellsize_m, finesse, cellsize_over_finesse
    nrows,     \* Matrix::nrows
    ncols,     \* Matrix::ncols
    homei,     \* Matrix::homei
    homej,     \* Matrix::homej
    mat,       \* Matrix::mat, a function from <<i, j>> to the Cell record
    stack,     \* the deque of calculate_safety_altitude, front first
    written,   \* history: the cells Cell::calculate has written to
    mat0,      \* history: the grid as it was when propagation started
    env,       \* the invocation: argc, the home and exportPasses arguments, the
               \* topology file, and the output files that can be opened
    win,       \* Matrix::start_i, end_i, start_j, end_j
    files,     \* the output files written so far, by name
    cerr,      \* the diagnostics main and the writers sent to the error stream
    prev,      \* history: the altitudes of the previous run, by raster cell
    view       \* history: the last call of Cell::isInView, its reads and its result

vars == <<pc, params, nrows, ncols, homei, homej, mat, stack, written, mat0,
          env, win, files, cerr, prev, view>>

\* what the pipeline of main leaves alone between readFile and the writers
ioVars == <<env, win, files, cerr, prev, view>>

----------------------------------------------------------------------------
(* Bounds of the model and the input sets the initial states draw from.    *)

Resolution == 1000      \* fixed-point units per metre (and per cell for hypot)
NRows == 3              \* rows of the window in the general specification
NCols == 3              \* columns of the window in the general specification
MaxPeaks == 2           \* cells of non-zero elevation in a general field
MaxPeaksMain == 1       \* cells of non-zero elevation in a raster of a whole invocation
MaxStack == 80          \* the deque never grows beyond this in the model
NFlat == 5              \* side of the square window of the flat-grid runs
NLoS == 4               \* side of the square window of the line-of-sight runs
MaxPeaksLoS == 3        \* cells of non-zero elevation in a line-of-sight field
NWall == 4              \* rows of the window of the wall runs
HomeMargin == 2         \* cells by which home may lie outside the raster
NWindowRows == 6        \* rows of the raster of the window runs
NWindowCols == 5        \* columns of the raster of the window runs
MaxPeaksWindow == 2     \* cells of non-zero elevation in a raster of the window runs
WindowExtra == 1        \* cells added to the clipping radius in the second window run
NPassRows == 2          \* rows of the grid of the pass runs
NPassCols == 2          \* columns of the grid of the pass runs
NExportRows == 3        \* rows of the raster of the pass export runs
NExportCols == 4        \* columns of the raster of the pass export runs
MaxPeaksExport == 2     \* cells of non-zero elevation in a raster of the pass export runs
NView == 5              \* side of the grid of the line-of-sight calls
MaxGroundView == 2      \* ground cells in a grid of the line-of-sight calls

Elevations == {0, 20, 40}       \* metres; 40 is above the general ceiling
DistSols == {0, 2}              \* metres
Securites == {0, 3}             \* metres
Ceilings == {30}                \* metres
Cellsizes == {100}              \* metres
Finesses == {20}

LoSElevations == {0, 10, 20}    \* metres, line-of-sight runs
LoSDistSols == {2}
LoSSecurites == {0}
LoSCeilings == {60}

FlatElevations == {0, 20}       \* metres, the uniform elevation of a flat run
FlatDistSols == {0, 6}
FlatSecurites == {0, 3}
FlatCeilings == {12, 60}

WallElevations == {9999}        \* metres, the wall of the wall runs
WallCeilings == {1000}

----------------------------------------------------------------------------
(* Arithmetic helpers.                                                     *)

Abs(x) == IF x < 0 THEN -x ELSE x

RECURSIVE SqrtFloor(_, _, _)
\* largest r in lo..hi with r*r <= n, by bisection (lo*lo <= n < (hi+1)^2)
SqrtFloor(n, lo, hi) ==
    IF lo = hi THEN lo
    ELSE LET mid == (lo + hi + 1) \div 2
         IN IF mid * mid <= n THEN SqrtFloor(n, mid, hi)
                              ELSE SqrtFloor(n, lo, mid - 1)

Max(a, b) == IF a >= b THEN a ELSE b

\* no two cells of any window of the model are further apart on an axis
MaxOffset ==
    Max(Max(Max(NRows, NCols), Max(Max(NFlat, NLoS), NWall)), Max(NWindowRows, NWindowCols))

\* sqrt(d2) in 1/Resolution, rounded to nearest
SqrtRound(d2) ==
    LET n == d2 * Resolution * Resolution
        r == SqrtFloor(n, 0, 2 * MaxOffset * Resolution)
    IN IF n - r * r > (r + 1) * (r + 1) - n THEN r + 1 ELSE r

\* the pairs <<d2, sqrt(d2)>> for every squared distance in a window
HypotTable == { <<d2, SqrtRound(d2)>> : d2 \in 0 .. 2 * MaxOffset * MaxOffset }

\* the value bound to a one-element set
TheOne(S) == CHOOSE x \in S : TRUE

\* hypot(decalage_i, decalage_j) in 1/Resolution of a cell, rounded to nearest
hypot(di, dj) ==
    TheOne({ p[2] : p \in { q \in HypotTable : q[1] = di * di + dj * dj } })

\* a value in metres as a fixed-point altitude
Metres(x) == x * Resolution

----------------------------------------------------------------------------
(* The Cell of src/unnamed/part_003 (Cell.h) and the grid.                  *)

CellsOf(nr, nc) == (0 .. nr - 1) \X (0 .. nc - 1)

Cells == CellsOf(nrows, ncols)

\* Cell::Cell plus the per-cell part of Matrix::readFile
NewCell(elev, nodata) ==
    [elevation |-> elev, altitude |-> nodata, oi |-> 0, oj |-> 0,
     ground |-> FALSE, mountain_pass |-> FALSE, weight |-> 0]

Origin(m, c) == <<m[c].oi, m[c].oj>>

isInsideMatrix(i, j) == i >= 0 /\ i < nrows /\ j >= 0 /\ j < ncols

----------------------------------------------------------------------------
(* Cell::isInView: the cells the walk reads, in the order it reads them.    *)

RECURSIVE WalkX_NoCorner(_, _, _, _, _, _, _, _, _)
\* the dx >= dy branch reading the cells it steps onto and no corner cell
WalkX_NoCorner(k, x1, y1, error, errorprev, dx, dy, xstep, ystep) ==
    IF k >= dx THEN <<>>
    ELSE LET nx == x1 + xstep
             e1 == error + dy * 2
             cross == e1 > dx * 2
             ny == IF cross THEN y1 + ystep ELSE y1
             e2 == IF cross THEN e1 - dx * 2 ELSE e1
         IN << <<nx, ny>> >>
               \o WalkX_NoCorner(k + 1, nx, ny, e2, e2, dx, dy, xstep, ystep)

RECURSIVE WalkX(_, _, _, _, _, _, _, _, _)
\* the dx >= dy branch, from iteration k on
WalkX(k, x1, y1, error, errorprev, dx, dy, xstep, ystep) ==
    IF k >= dx THEN <<>>
    ELSE LET ddx == dx * 2
             ddy == dy * 2
             nx == x1 + xstep
             e1 == error + ddy
             cross == e1 > ddx
             ny == IF cross THEN y1 + ystep ELSE y1
             e2 == IF cross THEN e1 - ddx ELSE e1
             corner == IF cross /\ e2 + errorprev < ddx THEN << <<nx, ny - ystep>> >>
                       ELSE IF cross /\ e2 + errorprev > ddx THEN << <<nx - xstep, ny>> >>
                       ELSE <<>>
         IN corner \o << <<nx, ny>> >>
                   \o WalkX(k + 1, nx, ny, e2, e2, dx, dy, xstep, ystep)

RECURSIVE WalkY_CornersSwapped(_, _, _, _, _, _, _, _, _)
\* the dx < dy branch reading the corner cells in the order of the dx >= dy
\* branch: mat[x1][y1 - ystep] below the threshold, mat[x1 - xstep][y1] above
WalkY_CornersSwapped(k, x1, y1, error, errorprev, dx, dy, xstep, ystep) ==
    IF k >= dy THEN <<>>
    ELSE LET ddx == dx * 2
             ddy == dy * 2
             ny == y1 + ystep
             e1 == error + ddx
             cross == e1 > ddy
             nx == IF cross THEN x1 + xstep ELSE x1
             e2 == IF cross THEN e1 - ddy ELSE e1
             corner == IF cross /\ e2 + errorprev < ddy THEN << <<nx, ny - ystep>> >>
                       ELSE IF cross /\ e2 + errorprev > ddy THEN << <<nx - xstep, ny>> >>
                       ELSE <<>>
         IN corner \o << <<nx, ny>> >>
                   \o WalkY_CornersSwapped(k + 1, nx, ny, e2, e2, dx, dy, xstep, ystep)

RECURSIVE WalkY(_, _, _, _, _, _, _, _, _)
\* the dx < dy branch, from iteration k on
WalkY(k, x1, y1, error, errorprev, dx, dy, xstep, ystep) ==
    IF k >= dy THEN <<>>
    ELSE LET ddx == dx * 2
             ddy == dy * 2
             ny == y1 + ystep
             e1 == error + ddx
             cross == e1 > ddy
             nx == IF cross THEN x1 + xstep ELSE x1
             e2 == IF cross THEN e1 - ddy ELSE e1
             corner == IF cross /\ e2 + errorprev < ddy THEN << <<nx - xstep, ny>> >>
                       ELSE IF cross /\ e2 + errorprev > ddy THEN << <<nx, ny - ystep>> >>
                       ELSE <<>>
         IN corner \o << <<nx, ny>> >>
                   \o WalkY(k + 1, nx, ny, e2, e2, dx, dy, xstep, ystep)

\* the walk taking the dx < dy branch when dx >= dy and the other way round
Inspected_WrongAxis(x1, y1, x2, y2) ==
    IF x1 = x2 /\ y1 = y2 THEN <<>>
    ELSE IF Abs(x1 - x2) <= 1 /\ Abs(y1 - y2) <= 1 THEN <<>>
    ELSE LET xstep == IF x2 > x1 THEN 1 ELSE -1
             ystep == IF y2 > y1 THEN 1 ELSE -1
             dx == Abs(x2 - x1)
             dy == Abs(y2 - y1)
         IN IF dx >= dy THEN WalkY(0, x1, y1, dx, dx, dx, dy, xstep, ystep)
                        ELSE WalkX(0, x1, y1, dx, dx, dx, dy, xstep, ystep)

\* every cell isInView would read on the way from (x1, y1) to (x2, y2) if no
\* read made it return early
Inspected(x1, y1, x2, y2) ==
    IF x1 = x2 /\ y1 = y2 THEN <<>>
    ELSE IF Abs(x1 - x2) <= 1 /\ Abs(y1 - y2) <= 1 THEN <<>>
    ELSE LET xstep == IF x2 > x1 THEN 1 ELSE -1
             ystep == IF y2 > y1 THEN 1 ELSE -1
             dx == Abs(x2 - x1)
             dy == Abs(y2 - y1)
         IN IF dx >= dy THEN WalkX(0, x1, y1, dx, dx, dx, dy, xstep, ystep)
                        ELSE WalkY(0, x1, y1, dx, dx, dx, dy, xstep, ystep)

\* Cell::isInView of cell c towards (x2, y2): false as soon as a read cell is ground
isInView(m, c, x2, y2) ==
    LET cells == Inspected(c[1], c[2], x2, y2)
    IN \A k \in 1 .. Len(cells) : ~ m[cells[k]].ground

----------------------------------------------------------------------------
(* Cell::altitudeRequiseDepuis and Cell::calculate.                         *)

\* altitudeRequiseDepuis measuring the distance as |di| + |dj|
altitudeRequiseDepuis_Manhattan(m, o, decalage_i, decalage_j, cellsize_over_finesse) ==
    ((Abs(decalage_i) + Abs(decalage_j)) * Resolution * cellsize_over_finesse) \div Resolution
        + m[o].altitude

\* altitude required decalage cells away from cell o
altitudeRequiseDepuis(m, o, decalage_i, decalage_j, cellsize_over_finesse) ==
    (hypot(decalage_i, decalage_j) * cellsize_over_finesse) \div Resolution
        + m[o].altitude

\* calculateWith returning true where the cell was not improved
calculateWith_ReturnsTrue(m, c, o, requiredAltitude) ==
    IF m[c].oi # 0 /\ requiredAltitude >= m[c].altitude
    THEN [cell |-> m[c], wrote |-> FALSE, updated |-> TRUE]
    ELSE [cell |-> IF requiredAltitude <= m[c].elevation
                   THEN [m[c] EXCEPT !.altitude = m[c].elevation,
                                     !.oi = c[1], !.oj = c[2],
                                     !.ground = TRUE]
                   ELSE [m[c] EXCEPT !.altitude = requiredAltitude,
                                     !.oi = o[1], !.oj = o[2]],
          wrote |-> TRUE,
          updated |-> ~ (requiredAltitude >= params.nodataltitude)]

\* calculateWith leaving a landed cell at requiredAltitude instead of its elevation
calculateWith_NoClamp(m, c, o, requiredAltitude) ==
    IF m[c].oi # 0 /\ requiredAltitude >= m[c].altitude
    THEN [cell |-> m[c], wrote |-> FALSE, updated |-> FALSE]
    ELSE [cell |-> IF requiredAltitude <= m[c].elevation
                   THEN [m[c] EXCEPT !.altitude = requiredAltitude,
                                     !.oi = c[1], !.oj = c[2],
                                     !.ground = TRUE]
                   ELSE [m[c] EXCEPT !.altitude = requiredAltitude,
                                     !.oi = o[1], !.oj = o[2]],
          wrote |-> TRUE,
          updated |-> ~ (requiredAltitude >= params.nodataltitude)]

\* Cell::calculate without its ground branch: the cell takes requiredAltitude
\* and the origin it is offered even at or below its elevation
calculateWith_NoGround(m, c, o, requiredAltitude) ==
    IF m[c].oi # 0 /\ requiredAltitude >= m[c].altitude
    THEN [cell |-> m[c], wrote |-> FALSE, updated |-> FALSE]
    ELSE [cell |-> [m[c] EXCEPT !.altitude = requiredAltitude,
                                !.oi = o[1], !.oj = o[2]],
          wrote |-> TRUE,
          updated |-> ~ (requiredAltitude >= params.nodataltitude)]

\* the writes and the return value of Cell::calculate once requiredAltitude
\* is known
calculateWith(m, c, o, requiredAltitude) ==
    IF m[c].oi # 0 /\ requiredAltitude >= m[c].altitude
    THEN [cell |-> m[c], wrote |-> FALSE, updated |-> FALSE]
    ELSE [cell |-> IF requiredAltitude <= m[c].elevation
                   THEN [m[c] EXCEPT !.altitude = m[c].elevation,
                                     !.oi = c[1], !.oj = c[2],
                                     !.ground = TRUE]
                   ELSE [m[c] EXCEPT !.altitude = requiredAltitude,
                                     !.oi = o[1], !.oj = o[2]],
          wrote |-> TRUE,
          updated |-> ~ (requiredAltitude >= params.nodataltitude)]

\* Cell::calculate on cell c with the origin o gives the cell afterwards,
\* whether it wrote, and the value it returns.
calculate(m, c, o) ==
    TheOne({ calculateWith(m, c, o, requiredAltitude) :
             requiredAltitude \in { altitudeRequiseDepuis(m, o, c[1] - o[1], c[2] - o[2],
                                                          params.cellsize_over_finesse) } })

----------------------------------------------------------------------------
(* Matrix::neighbours_with_different_origin_for_stack.                      *)

directions == << <<-1, 0>>, <<1, 0>>, <<0, -1>>, <<0, 1>> >>

\* the tuples (ni, nj, i, j) of the in-grid 4-neighbours of (i, j) whose origin
\* differs from the origin of (i, j), in the order Up, Down, Left, Right
neighbours_with_different_origin_for_stack(m, i, j) ==
    SelectSeq([k \in 1 .. 4 |-> <<i + directions[k][1], j + directions[k][2], i, j>>],
              LAMBDA t : isInsideMatrix(t[1], t[2])
                         /\ Origin(m, <<t[1], t[2]>>) # Origin(m, <<i, j>>))

----------------------------------------------------------------------------
(* Initial states: the Matrix as Matrix::readFile leaves it.                *)

RECURSIVE SubsetsUpTo(_, _)
\* the subsets of S with at most k elements
SubsetsUpTo(S, k) ==
    IF k = 0 \/ S = {} THEN {{}}
    ELSE LET x == CHOOSE y \in S : TRUE
             without == SubsetsUpTo(S \ {x}, k)
             with == {T \cup {x} : T \in SubsetsUpTo(S \ {x}, k - 1)}
         IN without \cup with

\* elevation fields (in metres) that are 0 except on at most k cells
PeakFields(cells, k, levels) ==
    UNION { { [c \in cells |-> IF c \in P THEN g[c] ELSE 0] : g \in [P -> levels \ {0}] }
            : P \in SubsetsUpTo(cells, k) }

\* Params::Params and the header part of Matrix::readFile
NewParams(d, s, nodata, cellsize, fin) ==
    [distSol |-> Metres(d), securite |-> Metres(s), nodataltitude |-> Metres(nodata),
     cellsize_m |-> Metres(cellsize), finesse |-> fin,
     cellsize_over_finesse |-> Metres(cellsize) \div fin]

\* argc below which Params::Params throws
MinArgc == 10

\* the names main gives its output files, under output_path
OutputFiles == {"output_sub.asc", "local.asc", "mountain_passes.csv"}

\* an ESRI ASCII raster as Matrix::readFile parses it: the header and the
\* elevations (in metres) by global row and column, row 0 the northernmost
Topology(gnr, gnc, cellsize, e) ==
    [global_ncols |-> gnc, global_nrows |-> gnr, xllcorner |-> 0, yllcorner |-> 0,
     cellsize_m |-> cellsize, elevation |-> e]

\* a constructed Matrix of nr x nc cells with one of the elevation fields and
\* one of the home cells; the raster is the window
Constructed(nr, nc, fields, homes, ds, ss, ceilings) ==
    /\ pc = "constructed"
    /\ nrows = nr
    /\ ncols = nc
    /\ \E h \in homes : homei = h[1] /\ homej = h[2]
    /\ \E d \in ds, s \in ss, n \in ceilings, cs \in Cellsizes, f \in Finesses :
          params = NewParams(d, s, n, cs, f)
    /\ \E e \in fields :
          /\ mat = [c \in CellsOf(nr, nc) |-> NewCell(Metres(e[c]), params.nodataltitude)]
          /\ env = [argc |-> MinArgc,
                    homex |-> homej * (params.cellsize_m \div Resolution),
                    homey |-> (nr - 1 - homei) * (params.cellsize_m \div Resolution),
                    finesse |-> params.finesse,
                    distSol |-> params.distSol \div Resolution,
                    securite |-> params.securite \div Resolution,
                    nodataltitude |-> params.nodataltitude \div Resolution,
                    exportPasses |-> "false",
                    topology |-> Topology(nr, nc, params.cellsize_m \div Resolution, e),
                    writable |-> OutputFiles]
    /\ stack = <<>>
    /\ written = {}
    /\ mat0 = mat
    /\ win = [start_i |-> 0, end_i |-> nr - 1, start_j |-> 0, end_j |-> nc - 1]
    /\ files = <<>>
    /\ cerr = <<>>
    /\ prev = <<>>
    /\ view = <<>>

Init ==
    Constructed(NRows, NCols, PeakFields(CellsOf(NRows, NCols), MaxPeaks, Elevations),
                CellsOf(NRows, NCols), DistSols, Securites, Ceilings)

----------------------------------------------------------------------------
(* main (src/unnamed/part_008) up to the end of propagation.                *)

Home == <<homei, homej>>

\* Cell::initialize on the home cell
initialize(cell, row, col) ==
    [cell EXCEPT !.altitude = cell.elevation + params.securite,
                 !.oi = row, !.oj = col]

\* M.mat[M.homei][M.homej].initialize(params)
Initialize ==
    /\ pc = "constructed"
    /\ Home \in Cells
    /\ mat' = [mat EXCEPT ![Home] = initialize(mat[Home], homei, homej)]
    /\ pc' = "initialized"
    /\ UNCHANGED <<params, nrows, ncols, homei, homej, stack, written, mat0, ioVars>>

\* Matrix::addGroundClearance
addGroundClearance(m) ==
    [c \in DOMAIN m |-> [m[c] EXCEPT !.elevation = m[c].elevation + params.distSol]]

AddGroundClearance ==
    /\ pc = "initialized"
    /\ mat' = addGroundClearance(mat)
    /\ pc' = "cleared"
    /\ UNCHANGED <<params, nrows, ncols, homei, homej, stack, written, mat0, ioVars>>

\* Matrix::calculate_safety_altitude, the seeding of the deque
Seed ==
    /\ pc = "cleared"
    /\ stack' = neighbours_with_different_origin_for_stack(mat, homei, homej)
    /\ mat0' = mat
    /\ pc' = "propagating"
    /\ UNCHANGED <<params, nrows, ncols, homei, homej, mat, written, ioVars>>

\* ElectedOrigin that always falls back to the parent
ElectedOrigin_ParentOnly(m, cell, parent) == parent

\* the origin the loop elects for cell when popped with parent
ElectedOrigin(m, cell, parent) ==
    IF isInView(m, cell, m[parent].oi, m[parent].oj)
    THEN <<m[parent].oi, m[parent].oj>>
    ELSE parent

\* the deque entry was skipped by one of the three continue statements
Skip ==
    /\ stack' = Tail(stack)
    /\ UNCHANGED <<mat, written>>

\* cell takes the result r of calculate; its neighbours are queued if it updated
Relax(cell, r) ==
    \E m2 \in { [mat EXCEPT ![cell] = r.cell] } :
        /\ mat' = m2
        /\ stack' = IF r.updated
                    THEN Tail(stack) \o neighbours_with_different_origin_for_stack(m2, cell[1], cell[2])
                    ELSE Tail(stack)
        /\ written' = IF r.wrote THEN written \cup {cell} ELSE written

\* Step without the continue on a ground cell
Step_NoGroundSkip ==
    /\ pc = "propagating"
    /\ stack # <<>>
    /\ \E cell \in { <<Head(stack)[1], Head(stack)[2]>> },
          parent \in { <<Head(stack)[3], Head(stack)[4]>> } :
          IF Origin(mat, parent) = Origin(mat, cell) THEN Skip
          ELSE \E elected \in { ElectedOrigin(mat, cell, parent) } :
                  IF elected = Origin(mat, cell) THEN Skip
                  ELSE \E r \in { calculate(mat, cell, elected) } : Relax(cell, r)
    /\ Len(stack') <= MaxStack
    /\ UNCHANGED <<pc, params, nrows, ncols, homei, homej, mat0, ioVars>>

\* Matrix::calculate_safety_altitude, one pass of the while loop
Step ==
    /\ pc = "propagating"
    /\ stack # <<>>
    /\ \E cell \in { <<Head(stack)[1], Head(stack)[2]>> },
          parent \in { <<Head(stack)[3], Head(stack)[4]>> } :
          IF Origin(mat, parent) = Origin(mat, cell) THEN Skip
          ELSE IF mat[cell].ground THEN Skip
          ELSE \E elected \in { ElectedOrigin(mat, cell, parent) } :
                  IF elected = Origin(mat, cell) THEN Skip
                  ELSE \E r \in { calculate(mat, cell, elected) } : Relax(cell, r)
    /\ Len(stack') <= MaxStack
    /\ UNCHANGED <<pc, params, nrows, ncols, homei, homej, mat0, ioVars>>

\* Matrix::calculate_safety_altitude, the loop exit
Return ==
    /\ pc = "propagating"
    /\ stack = <<>>
    /\ pc' = "propagated"
    /\ UNCHANGED <<params, nrows, ncols, homei, homej, mat, stack, written, mat0, ioVars>>

Next ==
    \/ Initialize
    \/ AddGroundClearance
    \/ Seed
    \/ Step
    \/ Return

Spec == Init /\ [][Next]_vars

\* the loop runs to completion: main is sequential and nothing preempts it
FairSpec == Spec /\ WF_vars(Next)

Propagated == pc = "propagated"

----------------------------------------------------------------------------
(* Line-of-sight runs: a 4 x 4 window with up to three low hills, home in   *)
(* the bottom row, every cell within reach of the ceiling.                 *)

InitLoS ==
    Constructed(NLoS, NLoS, PeakFields(CellsOf(NLoS, NLoS), MaxPeaksLoS, LoSElevations),
                {<<NLoS - 1, NLoS - 2>>}, LoSDistSols, LoSSecurites, LoSCeilings)

SpecLoS == InitLoS /\ [][Next]_vars

----------------------------------------------------------------------------
(* Flat runs: a square window of uniform elevation, any home.               *)

InitFlat ==
    Constructed(NFlat, NFlat,
                { [c \in CellsOf(NFlat, NFlat) |-> e] : e \in FlatElevations },
                CellsOf(NFlat, NFlat), FlatDistSols, FlatSecurites, FlatCeilings)

SpecFlat == InitFlat /\ [][Next]_vars

----------------------------------------------------------------------------
(* Wall runs: one full-width row far above the ceiling, sea level elsewhere, *)
(* home on either side of the wall.                                        *)

WallFields ==
    { [c \in CellsOf(NWall, NCols) |-> IF c[1] = w THEN e ELSE 0]
        : w \in 1 .. NWall - 2, e \in WallElevations }

InitWall ==
    Constructed(NWall, NCols, WallFields, CellsOf(NWall, NCols),
                DistSols, Securites, WallCeilings)

SpecWall == InitWall /\ [][Next]_vars

----------------------------------------------------------------------------
(* The whole of main (src/unnamed/part_008): Params::Params, Matrix::readFile, *)
(* the bootstrap and propagation above, and the writers.  A size_t is kept  *)
(* as its signed representative: a negative number v stands for 2^64 + v.  *)

\* the exception reaches the catch of main: diagnostic, exit code 1
Throw(what) ==
    /\ pc' = "returned1"
    /\ cerr' = Append(cerr, what)

\* std::tolower over the exportPasses values of the model
ToLower(s) == IF s = "True" THEN "true" ELSE s

exportPasses == ToLower(env.exportPasses)

\* Params::Params
ParseArgs ==
    /\ pc = "start"
    /\ IF env.argc < MinArgc
       THEN Throw("Not enough arguments provided.") /\ UNCHANGED params
       ELSE IF exportPasses \notin {"true", "false", "0", "1"}
       THEN Throw("Invalid value for exportPasses.") /\ UNCHANGED params
       ELSE /\ params' = NewParams(env.distSol, env.securite, env.nodataltitude, 0,
                                   env.finesse)
            /\ pc' = "parsed"
            /\ UNCHANGED cerr
    /\ UNCHANGED <<nrows, ncols, homei, homej, mat, stack, written, mat0,
                   env, win, files, prev, view>>

\* the float n / d (d > 0) truncated toward zero
TruncDiv(n, d) == IF n >= 0 THEN n \div d ELSE - ((- n) \div d)

\* static_cast<size_t> of the float n / d: a quotient of -1 or below has no
\* size_t value and the conversion is undefined; the builds wrap it or give 0
SizeTOf(n, d) ==
    IF TruncDiv(n, d) >= 0 THEN {TruncDiv(n, d)} ELSE {TruncDiv(n, d), 0}

\* std::min giving its second argument whatever the first
MinSizeT_Second(a, b) == b

\* std::min of two size_t
MinSizeT(a, b) ==
    IF (a < 0) = (b < 0) THEN (IF a <= b THEN a ELSE b)
    ELSE (IF a < 0 THEN b ELSE a)

\* the clipping radius of Matrix::readFile, in cells
Radius(nodataltitude, cellsize_over_finesse) == nodataltitude \div cellsize_over_finesse

\* Matrix::readFile with the clipping radius enlarged by extra cells
readFile(extra) ==
    \E T \in {env.topology} :
    \E cof \in {Metres(T.cellsize_m) \div params.finesse} :
    \E radius \in {Radius(params.nodataltitude, cof) + extra} :
    \E qi \in SizeTOf(env.homey - T.yllcorner, T.cellsize_m),
       global_homej \in SizeTOf(env.homex - T.xllcorner, T.cellsize_m) :
    \E global_homei \in {T.global_nrows - 1 - qi} :
    \E si \in {Max(global_homei - radius, 0)},
       ei \in {MinSizeT(global_homei + radius, T.global_nrows - 1)},
       sj \in {Max(global_homej - radius, 0)},
       ej \in {MinSizeT(global_homej + radius, T.global_ncols - 1)} :
        IF ei - si + 1 < 0 \/ ej - sj + 1 < 0
        THEN /\ Throw("cannot create std::vector larger than max_size()")
             /\ UNCHANGED <<params, nrows, ncols, homei, homej, mat, stack, written,
                            mat0, win>>
        ELSE /\ params' = NewParams(env.distSol, env.securite, env.nodataltitude,
                                    T.cellsize_m, env.finesse)
             /\ win' = [start_i |-> si, end_i |-> ei, start_j |-> sj, end_j |-> ej]
             /\ nrows' = ei - si + 1
             /\ ncols' = ej - sj + 1
             /\ homei' = global_homei - si
             /\ homej' = global_homej - sj
             /\ mat' = [c \in CellsOf(ei - si + 1, ej - sj + 1) |->
                          NewCell(Metres(T.elevation[<<si + c[1], sj + c[2]>>]),
                                  Metres(env.nodataltitude))]
             /\ mat0' = mat'
             /\ stack' = <<>>
             /\ written' = {}
             /\ pc' = "constructed"
             /\ UNCHANGED cerr

\* Matrix M(params)
ReadFile ==
    /\ pc = "parsed"
    /\ readFile(0)
    /\ UNCHANGED <<env, files, prev, view>>

\* M.mat[M.homei][M.homej] with the home indices outside the vectors
InitializeOutside ==
    /\ pc = "constructed"
    /\ Home \notin Cells
    /\ pc' = "undefined"
    /\ UNCHANGED <<params, nrows, ncols, homei, homej, mat, stack, written, mat0, ioVars>>

\* Matrix::update_altitude_for_ground_cells
update_altitude_for_ground_cells(m, altivisu) ==
    [c \in DOMAIN m |-> IF m[c].ground THEN [m[c] EXCEPT !.altitude = altivisu] ELSE m[c]]

\* M.update_altitude_for_ground_cells(0)
Flatten ==
    /\ pc = "propagated"
    /\ mat' = update_altitude_for_ground_cells(mat, 0)
    /\ pc' = "flattened"
    /\ UNCHANGED <<params, nrows, ncols, homei, homej, stack, written, mat0, ioVars>>

\* operator<< of a float: six significant digits
Format(v) ==
    IF Abs(v) < 1000 * Resolution THEN v
    ELSE IF Abs(v) < 10000 * Resolution THEN ((v + 5) \div 10) * 10
    ELSE IF Abs(v) < 100000 * Resolution THEN ((v + 50) \div 100) * 100
    ELSE ((v + 500) \div 1000) * 1000

\* write_output ignoring its nozero argument
write_output_Verbatim(m, nozero) ==
    [ncols |-> ncols, nrows |-> nrows, NODATA_value |-> Format(params.nodataltitude),
     data |-> [c \in Cells |-> Format(m[c].altitude)]]

\* the file Matrix::write_output writes once it is open
write_output(m, nozero) ==
    [ncols |-> ncols, nrows |-> nrows, NODATA_value |-> Format(params.nodataltitude),
     data |-> [c \in Cells |-> IF nozero /\ m[c].altitude = 0
                               THEN Format(params.nodataltitude)
                               ELSE Format(m[c].altitude)]]

\* the files with one more written
Put(fs, name, content) ==
    [n \in DOMAIN fs \cup {name} |-> IF n = name THEN content ELSE fs[n]]

\* a writer that found its file impossible to open
UnableToOpen(name) ==
    /\ cerr' = Append(cerr, "Unable to open file " \o name \o " for writing.")
    /\ UNCHANGED files

\* M.write_output(params, output_path + "/output_sub.asc", false)
WriteOutputSub ==
    /\ pc = "flattened"
    /\ IF "output_sub.asc" \in env.writable
       THEN files' = Put(files, "output_sub.asc", write_output(mat, FALSE)) /\ UNCHANGED cerr
       ELSE UnableToOpen("output_sub.asc")
    /\ pc' = "sub_written"
    /\ UNCHANGED <<params, nrows, ncols, homei, homej, mat, stack, written, mat0,
                   env, win, prev, view>>

\* M.write_output(params, output_path + "/local.asc", true)
WriteLocal ==
    /\ pc = "sub_written"
    /\ IF "local.asc" \in env.writable
       THEN files' = Put(files, "local.asc", write_output(mat, TRUE)) /\ UNCHANGED cerr
       ELSE UnableToOpen("local.asc")
    /\ pc' = "local_written"
    /\ UNCHANGED <<params, nrows, ncols, homei, homej, mat, stack, written, mat0,
                   env, win, prev, view>>

shouldExportPasses == exportPasses \in {"true", "1"}

\* Matrix::detect_passes
detect_passes(m) ==
    [c \in DOMAIN m |->
        [m[c] EXCEPT !.mountain_pass = m[Origin(m, c)].ground /\ ~ m[c].ground]]

DetectPasses ==
    /\ pc = "local_written"
    /\ shouldExportPasses
    /\ mat' = detect_passes(mat)
    /\ pc' = "detected"
    /\ UNCHANGED <<params, nrows, ncols, homei, homej, stack, written, mat0, ioVars>>

\* the default max_depth of Matrix::update_cell_weight
MaxDepth == 1000

RECURSIVE update_cell_weight(_, _, _)
\* Matrix::update_cell_weight: the grid afterwards, or thrown
update_cell_weight(m, cell, max_depth) ==
    IF max_depth = 0 THEN [thrown |-> TRUE, m |-> m]
    ELSE LET origin == Origin(m, cell)
             m2 == [m EXCEPT ![origin].weight = @ + 1]
         IN IF ~ m2[origin].ground /\ origin # cell
            THEN update_cell_weight(m2, origin, max_depth - 1)
            ELSE [thrown |-> FALSE, m |-> m2]

\* the cells of the grid in the order of the i, j loops
RowMajor == [k \in 1 .. nrows * ncols |-> <<(k - 1) \div ncols, (k - 1) % ncols>>]

RECURSIVE weight_passes(_, _)
\* Matrix::weight_passes from the k-th cell of the loops on
weight_passes(m, k) ==
    IF k > Len(RowMajor) THEN [thrown |-> FALSE, m |-> m]
    ELSE LET r == update_cell_weight(m, RowMajor[k], MaxDepth)
         IN IF r.thrown THEN r ELSE weight_passes(r.m, k + 1)

WeightPasses ==
    /\ pc = "detected"
    /\ \E r \in {weight_passes(mat, 1)} :
          IF r.thrown
          THEN Throw("Maximum recursion depth reached.") /\ UNCHANGED mat
          ELSE mat' = r.m /\ pc' = "weighted" /\ UNCHANGED cerr
    /\ UNCHANGED <<params, nrows, ncols, homei, homej, stack, written, mat0,
                   env, win, files, prev, view>>

\* the weight a pass must exceed to be written
PassWeight == 100

\* the test of Matrix::write_mountain_passes with >= in place of >
Emitted_AtLeast(m, c) ==
    /\ m[c].mountain_pass
    /\ m[c].weight >= PassWeight
    /\ m[Origin(m, Origin(m, c))].ground

\* the test Matrix::write_mountain_passes makes on a cell
Emitted(m, c) ==
    /\ m[c].mountain_pass
    /\ m[c].weight > PassWeight
    /\ m[Origin(m, Origin(m, c))].ground

\* the line written for cell c
PassRow(m, c) ==
    [name |-> "pass",
     x |-> env.topology.xllcorner + (win.start_j + c[2]) * env.topology.cellsize_m,
     y |-> env.topology.yllcorner
           + (env.topology.global_nrows - 1 - win.start_i - c[1]) * env.topology.cellsize_m,
     weight |-> m[c].weight]

\* the file Matrix::write_mountain_passes writes once it is open
write_mountain_passes(m) ==
    [header |-> "name,x,y,weight",
     rows |-> LET kept == SelectSeq(RowMajor, LAMBDA c : Emitted(m, c))
              IN [k \in 1 .. Len(kept) |-> PassRow(m, kept[k])]]

WritePasses ==
    /\ pc = "weighted"
    /\ IF "mountain_passes.csv" \in env.writable
       THEN /\ files' = Put(files, "mountain_passes.csv", write_mountain_passes(mat))
            /\ UNCHANGED cerr
       ELSE UnableToOpen("mountain_passes.csv")
    /\ pc' = "passes_written"
    /\ UNCHANGED <<params, nrows, ncols, homei, homej, mat, stack, written, mat0,
                   env, win, prev, view>>

\* return 0
Finish ==
    /\ pc = IF shouldExportPasses THEN "passes_written" ELSE "local_written"
    /\ pc' = "returned0"
    /\ UNCHANGED <<params, nrows, ncols, homei, homej, mat, stack, written, mat0, ioVars>>

NextMain ==
    \/ ParseArgs
    \/ ReadFile
    \/ Initialize
    \/ InitializeOutside
    \/ AddGroundClearance
    \/ Seed
    \/ Step
    \/ Return
    \/ Flatten
    \/ WriteOutputSub
    \/ WriteLocal
    \/ DetectPasses
    \/ WeightPasses
    \/ WritePasses
    \/ Finish

\* the invocations of the model: a raster of NRows x NCols cells with at most
\* MaxPeaksMain hills, home on any cell of the raster or up to HomeMargin
\* cells outside it
MainArgcs == {MinArgc - 1, MinArgc, MinArgc + 1}
MainExportPasses == {"true", "false", "maybe"}
MainElevations == {0, 20}
MainDistSols == {2}
MainSecurites == {0}
MainCeilings == {7, 30}
MainWritables == {OutputFiles, OutputFiles \ {"local.asc"}, {"local.asc"}}

\* the world coordinate of the middle of the q-th cell from the lower left corner
MidCell(q, cellsize) == q * cellsize + cellsize \div 2

\* an invocation about to start: home is given by the cell offsets <<qx, qy>>
\* of its world coordinates from the lower left corner of the raster
Started(argcs, exports, gnr, gnc, fields, homes, ds, ss, ceilings, writables) ==
    /\ pc = "start"
    /\ \E a \in argcs, x \in exports, h \in homes,
          cs \in Cellsizes, f \in Finesses, d \in ds, s \in ss, n \in ceilings,
          e \in fields, w \in writables :
          env = [argc |-> a, homex |-> MidCell(h[1], cs), homey |-> MidCell(h[2], cs),
                 finesse |-> f, distSol |-> d, securite |-> s, nodataltitude |-> n,
                 exportPasses |-> x, topology |-> Topology(gnr, gnc, cs, e),
                 writable |-> w]
    /\ params = NewParams(0, 0, 0, 0, 1)
    /\ nrows = 0
    /\ ncols = 0
    /\ homei = 0
    /\ homej = 0
    /\ mat = <<>>
    /\ mat0 = <<>>
    /\ stack = <<>>
    /\ written = {}
    /\ win = [start_i |-> 0, end_i |-> 0, start_j |-> 0, end_j |-> 0]
    /\ files = <<>>
    /\ cerr = <<>>
    /\ prev = <<>>
    /\ view = <<>>

InitMain ==
    Started(MainArgcs, MainExportPasses, NRows, NCols,
            PeakFields(CellsOf(NRows, NCols), MaxPeaksMain, MainElevations),
            (- HomeMargin .. NCols - 1 + HomeMargin) \X (- HomeMargin .. NRows - 1 + HomeMargin),
            MainDistSols, MainSecurites, MainCeilings, MainWritables)

SpecMain == InitMain /\ [][NextMain]_vars

----------------------------------------------------------------------------
(* Pass runs: Matrix::write_mountain_passes applied to grids whose flags,   *)
(* origins and weights are drawn freely, weights on both sides of           *)
(* PassWeight.                                                             *)

PassWeights == {PassWeight, PassWeight + 1}
PassOrigins == {<<0, 0>>, <<NPassRows - 1, NPassCols - 1>>}

\* the cells write_mountain_passes may meet
PassCells ==
    { [elevation |-> 0, altitude |-> 0, oi |-> o[1], oj |-> o[2], ground |-> g,
       mountain_pass |-> p, weight |-> w]
        : o \in PassOrigins, g \in BOOLEAN, p \in BOOLEAN, w \in PassWeights }

InitPasses ==
    /\ pc = "weighted"
    /\ nrows = NPassRows
    /\ ncols = NPassCols
    /\ homei = 0
    /\ homej = 0
    /\ mat \in [CellsOf(NPassRows, NPassCols) -> PassCells]
    /\ mat0 = mat
    /\ params = NewParams(0, 0, TheOne(Ceilings), TheOne(Cellsizes), TheOne(Finesses))
    /\ \E w \in {OutputFiles, OutputFiles \ {"mountain_passes.csv"}} :
          env = [argc |-> MinArgc, homex |-> 0,
                 homey |-> (NPassRows - 1) * TheOne(Cellsizes),
                 finesse |-> TheOne(Finesses), distSol |-> 0, securite |-> 0,
                 nodataltitude |-> TheOne(Ceilings), exportPasses |-> "true",
                 topology |-> Topology(NPassRows, NPassCols, TheOne(Cellsizes),
                                       [c \in CellsOf(NPassRows, NPassCols) |-> 0]),
                 writable |-> w]
    /\ win = [start_i |-> 0, end_i |-> NPassRows - 1, start_j |-> 0, end_j |-> NPassCols - 1]
    /\ stack = <<>>
    /\ written = {}
    /\ files = <<>>
    /\ cerr = <<>>
    /\ prev = <<>>
    /\ view = <<>>

NextPasses ==
    \/ WritePasses
    \/ Finish

SpecPasses == InitPasses /\ [][NextPasses]_vars

----------------------------------------------------------------------------
(* Window runs: the same invocation run twice, the second time with the     *)
(* clipping radius enlarged by WindowExtra cells, on a raster that reaches  *)
(* further north than the first window.                                    *)

\* the raster cell of the cell c of the window
Global(c) == <<win.start_i + c[1], win.start_j + c[2]>>

\* the cell of the window that holds the raster cell g
Local(g) == <<g[1] - win.start_i, g[2] - win.start_j>>

\* the altitudes of the finished run are kept and the raster is read again
\* with a larger clipping radius
Rerun ==
    /\ pc = "propagated"
    /\ DOMAIN prev = {}
    /\ prev' = [g \in {Global(c) : c \in Cells} |-> mat[Local(g)].altitude]
    /\ readFile(WindowExtra)
    /\ UNCHANGED <<env, files, view>>

NextWindow ==
    \/ ParseArgs
    \/ ReadFile
    \/ Initialize
    \/ AddGroundClearance
    \/ Seed
    \/ Step
    \/ Return
    \/ Rerun

WindowElevations == {0, 9, 11}
WindowDistSols == {0}
WindowSecurites == {0}
WindowCeilings == {12}

InitWindow ==
    Started({MinArgc}, {"false"}, NWindowRows, NWindowCols,
            PeakFields(CellsOf(NWindowRows, NWindowCols), MaxPeaksWindow, WindowElevations),
            {<<NWindowCols \div 2, NWindowRows \div 2 - 1>>},
            WindowDistSols, WindowSecurites, WindowCeilings, {OutputFiles})

SpecWindow == InitWindow /\ [][NextWindow]_vars

----------------------------------------------------------------------------
(* Pass export runs: whole invocations with exportPasses = "true" on a      *)
(* raster larger than the reach of home, so that some cells are never       *)
(* offered an origin.                                                       *)

NextExport ==
    \/ ParseArgs
    \/ ReadFile
    \/ Initialize
    \/ AddGroundClearance
    \/ Seed
    \/ Step
    \/ Return
    \/ Flatten
    \/ WriteOutputSub
    \/ WriteLocal
    \/ DetectPasses
    \/ WeightPasses
    \/ WritePasses
    \/ Finish

ExportElevations == {0, 20, 40}
ExportDistSols == {0}
ExportSecurites == {3}
ExportCeilings == {30}

\* home on the raster cell (1, 1)
InitExport ==
    Started({MinArgc}, {"true"}, NExportRows, NExportCols,
            PeakFields(CellsOf(NExportRows, NExportCols), MaxPeaksExport, ExportElevations),
            {<<1, NExportRows - 2>>},
            ExportDistSols, ExportSecurites, ExportCeilings, {OutputFiles})

SpecExport == InitExport /\ [][NextExport]_vars

----------------------------------------------------------------------------
(* Line-of-sight runs: one call of Cell::isInView between two cells of a    *)
(* grid whose ground flags are drawn freely.                                *)

\* the reads of isInView from cell c towards (x2, y2), up to and including the
\* one that makes it return false
Reads(m, c, x2, y2) ==
    LET cells == Inspected(c[1], c[2], x2, y2)
        stops == {k \in 1 .. Len(cells) : m[cells[k]].ground}
    IN IF stops = {} THEN cells
       ELSE SubSeq(cells, 1, CHOOSE k \in stops : \A l \in stops : k <= l)

\* mat[c].isInView(t, mat), as calculate_safety_altitude calls it
View ==
    /\ pc = "view"
    /\ \E c \in Cells, t \in Cells :
          view' = [from |-> c, to |-> t,
                   read |-> Reads(mat, c, t[1], t[2]),
                   result |-> isInView(mat, c, t[1], t[2])]
    /\ pc' = "viewed"
    /\ UNCHANGED <<params, nrows, ncols, homei, homej, mat, stack, written, mat0,
                   env, win, files, cerr, prev>>

\* a grid of NView x NView cells of which at most MaxGroundView are ground, as
\* Cell::calculate leaves a ground cell: at its elevation
InitView ==
    /\ pc = "view"
    /\ nrows = NView
    /\ ncols = NView
    /\ homei = 0
    /\ homej = 0
    /\ params = NewParams(0, 0, TheOne(Ceilings), TheOne(Cellsizes), TheOne(Finesses))
    /\ \E g \in SubsetsUpTo(CellsOf(NView, NView), MaxGroundView) :
          mat = [c \in CellsOf(NView, NView) |->
                   IF c \in g
                   THEN [NewCell(0, params.nodataltitude) EXCEPT !.ground = TRUE,
                                                                !.altitude = 0]
                   ELSE NewCell(0, params.nodataltitude)]
    /\ mat0 = mat
    /\ env = [argc |-> MinArgc, homex |-> 0, homey |-> (NView - 1) * TheOne(Cellsizes),
              finesse |-> TheOne(Finesses), distSol |-> 0, securite |-> 0,
              nodataltitude |-> TheOne(Ceilings), exportPasses |-> "false",
              topology |-> Topology(NView, NView, TheOne(Cellsizes),
                                    [c \in CellsOf(NView, NView) |-> 0]),
              writable |-> OutputFiles]
    /\ win = [start_i |-> 0, end_i |-> NView - 1, start_j |-> 0, end_j |-> NView - 1]
    /\ stack = <<>>
    /\ written = {}
    /\ files = <<>>
    /\ cerr = <<>>
    /\ prev = <<>>
    /\ view = <<>>

NextView == View

SpecView == InitView /\ [][NextView]_vars

----------------------------------------------------------------------------
(* Shared vocabulary of the properties below.                              *)

\* the cell's origin was assigned by calculate and is another cell
Inherits(c) == c \in written /\ Origin(mat, c) # c

\* the cells isInView reads between c and (x2, y2), the target itself excluded
Between(c, x2, y2) ==
    LET cells == Inspected(c[1], c[2], x2, y2)
    IN {cells[k] : k \in 1 .. Len(cells)} \ {<<x2, y2>>}

----------------------------------------------------------------------------
\* C1: Ceiling bound.  After calculate_safety_altitude every cell other than
\* home has altitude <= nodataltitude, and a cell that calculate never wrote
\* still has altitude exactly nodataltitude.
C1_CeilingBound ==
    Propagated =>
        \A c \in Cells \ {Home} :
            /\ mat[c].altitude <= params.nodataltitude
            /\ (c \notin written => mat[c].altitude = params.nodataltitude)

\* C2: Altitude consistency.  After calculate_safety_altitude every cell whose
\* origin is assigned and is another cell has altitude = the FINAL altitude of
\* its origin + hypot(i - oi, j - oj) * cellsize_m / finesse.
C2_AltitudeConsistency ==
    Propagated =>
        \A c \in Cells :
            Inherits(c) =>
                mat[c].altitude =
                    altitudeRequiseDepuis(mat, Origin(mat, c), c[1] - mat[c].oi,
                                          c[2] - mat[c].oj, params.cellsize_over_finesse)

\* C3: Line of sight respected.  After calculate_safety_altitude, for every
\* cell whose origin is assigned and is another cell, no cell that isInView
\* reads strictly between the cell and its origin is ground in the final grid.
C3_LineOfSightRespected ==
    Propagated =>
        \A c \in Cells :
            Inherits(c) =>
                \A b \in Between(c, mat[c].oi, mat[c].oj) : ~ mat[b].ground

\* C4: Termination.  From every seeded state the deque eventually becomes
\* empty and calculate_safety_altitude returns, for every elevation field and
\* every home position, row 0 included.
C4_Termination == <>Propagated

\* a run with home in row 0 in which propagation wrote to home itself
C4_Witness == Propagated /\ homei = 0 /\ Home \in written

\* the deque stays below the bound of the model, so the bound never stops a run
C4_StackWithinBound == Len(stack) < MaxStack

\* C5: Home fixed point.  After the bootstrap of main and after propagation
\* home's altitude is its pre-clearance elevation + distSol + securite, that is
\* its clearance-augmented elevation + securite, and home is not ground.
C5_HomeFixedPoint ==
    pc \in {"cleared", "propagating", "propagated"} =>
        /\ mat[Home].altitude = mat[Home].elevation + params.securite
        /\ ~ mat[Home].ground

\* C6: Propagation never modifies home.  After calculate_safety_altitude the
\* altitude, origin and ground flag of home are the ones it had when
\* propagation started, for every home position, row 0 included.
C6_HomeUnchanged ==
    Propagated =>
        /\ mat[Home].altitude = mat0[Home].altitude
        /\ Origin(mat, Home) = Home
        /\ mat[Home].ground = mat0[Home].ground

\* C7 as claimed: after propagation, for EVERY cell (home and never-reached
\* cells included) ground holds iff altitude <= elevation, and every ground
\* cell has origin = self and altitude = elevation.
C7_GroundEveryCell ==
    Propagated =>
        \A c \in Cells :
            /\ mat[c].ground <=> mat[c].altitude <= mat[c].elevation
            /\ mat[c].ground => Origin(mat, c) = c /\ mat[c].altitude = mat[c].elevation

\* C7 as amended: after propagation, for every cell calculate has written,
\* ground holds iff altitude <= elevation; and every ground cell has
\* origin = self and altitude = elevation.
C7_GroundWrittenCells ==
    Propagated =>
        /\ \A c \in written : mat[c].ground <=> mat[c].altitude <= mat[c].elevation
        /\ \A c \in Cells :
              mat[c].ground => Origin(mat, c) = c /\ mat[c].altitude = mat[c].elevation

\* a finished run that produced a ground cell from a required altitude below
\* the terrain, and a written cell that stayed above the terrain
C7_Witness ==
    /\ Propagated
    /\ \E c \in written : mat[c].ground /\ mat[c].altitude > mat0[Home].altitude
    /\ \E c \in written : ~ mat[c].ground

\* the rows that are entirely above the ceiling
WallRows == { w \in 0 .. nrows - 1 :
                \A j \in 0 .. ncols - 1 : mat[<<w, j>>].elevation > params.nodataltitude }

\* cell c lies on the other side of a wall row, seen from home
BehindWall(c) ==
    \E w \in WallRows : (homei < w /\ w < c[1]) \/ (c[1] < w /\ w < homei)

\* C8: Wall of ground.  When a full-width row above the ceiling separates home
\* from the rest of the grid, every cell on the far side of the wall ends with
\* altitude exactly nodataltitude, the cells 4-adjacent to the wall included.
C8_WallOfGround ==
    Propagated =>
        \A c \in Cells : BehindWall(c) => mat[c].altitude = params.nodataltitude

Uniform == \A c, d \in Cells : mat[c].elevation = mat[d].elevation

HomeInterior ==
    /\ 0 < homei /\ homei < nrows - 1
    /\ 0 < homej /\ homej < ncols - 1

\* the altitude the cone of home requires at cell c
FromHome(c) ==
    altitudeRequiseDepuis(mat, Home, c[1] - homei, c[2] - homej,
                          params.cellsize_over_finesse)

AllWithinReach == \A c \in Cells : FromHome(c) <= params.nodataltitude

FlatCase ==
    /\ Propagated
    /\ Uniform
    /\ params.distSol = 0
    /\ params.securite = 0
    /\ HomeInterior
    /\ AllWithinReach

\* C9: Flat grid.  Uniform elevation, distSol = securite = 0, home in the
\* interior, every cell within reach of the ceiling: after propagation every
\* cell has origin = home and altitude = home.altitude + hypot(di, dj) *
\* cellsize / finesse.
C9_FlatGrid ==
    FlatCase =>
        \A c \in Cells : Origin(mat, c) = Home /\ (c # Home => mat[c].altitude = FromHome(c))

\* a finished flat run whose cells off the axes of home were reached
C9_Witness ==
    /\ FlatCase
    /\ \E c \in written : c[1] # homei /\ c[2] # homej

Chebyshev(c) ==
    LET di == Abs(c[1] - homei)
        dj == Abs(c[2] - homej)
    IN IF di >= dj THEN di ELSE dj

SquaredDistance(c) == (c[1] - homei) * (c[1] - homei) + (c[2] - homej) * (c[2] - homej)

InheritsHome(c) == Inherits(c) /\ Origin(mat, c) = Home

----------------------------------------------------------------------------
\* every raster cell the first window left out is out of reach of the ceiling
\* from home
FirstWindowHoldsReach ==
    \A c \in Cells :
        Global(c) \notin DOMAIN prev =>
            altitudeRequiseDepuis(mat0, Home, c[1] - homei, c[2] - homej,
                                  params.cellsize_over_finesse) >= params.nodataltitude

\* C11: Window independence.  Of two runs on the same raster, home and
\* parameters, the second with a larger clipping window, where the first window
\* already holds every cell within reach of the ceiling, every cell of the first
\* window ends propagation with the same altitude in both.
C11_WindowIndependence ==
    (Propagated /\ DOMAIN prev # {} /\ FirstWindowHoldsReach) =>
        \A g \in DOMAIN prev : mat[Local(g)].altitude = prev[g]

\* the home coordinates fall in a raster cell outside the raster
HomeOutsideRaster ==
    LET T == env.topology
        col == (env.homex - T.xllcorner) \div T.cellsize_m
        row == T.global_nrows - 1 - ((env.homey - T.yllcorner) \div T.cellsize_m)
    IN col < 0 \/ col >= T.global_ncols \/ row < 0 \/ row >= T.global_nrows

\* the output files the invocation was asked for
Requested ==
    IF shouldExportPasses THEN OutputFiles ELSE OutputFiles \ {"mountain_passes.csv"}

\* C12: Argument count.  An invocation whose argc is not exactly MinArgc (nine
\* positional arguments), fewer or more, ends in the catch of main with exit
\* code 1 and one diagnostic, and no file was read or written.
C12_ArgumentCount ==
    (env.argc # MinArgc /\ pc # "start") =>
        /\ pc = "returned1"
        /\ Len(cerr) = 1
        /\ DOMAIN mat = {}
        /\ DOMAIN files = {}

\* C13: Output I/O errors are fatal.  Exit code 0 is returned only when every
\* requested output file was written, and once a diagnostic is on the error
\* stream (a writer could not open its file) the invocation has ended with exit
\* code 1 without another pipeline step.
C13_OutputErrorsFatal ==
    /\ pc = "returned0" => Requested \subseteq DOMAIN files
    /\ cerr # <<>> => pc = "returned1"

\* C14: Loader rejects an empty window.  When the home coordinates fall in a
\* raster cell outside the raster, readFile throws: the invocation never holds
\* a constructed Matrix, whose home indices would lie outside its grid.
C14_EmptyWindowRejected ==
    HomeOutsideRaster => pc \in {"start", "parsed", "returned1"}

\* the cells whose line write_mountain_passes must write
PassesToEmit ==
    { c \in Cells : /\ mat[c].mountain_pass
                    /\ mat[c].weight > PassWeight
                    /\ mat[Origin(mat, Origin(mat, c))].ground }

\* the place of cell c in the order of the rows and, within a row, the columns
RowMajorRank(c) == c[1] * ncols + c[2]

\* the cell a written pass line is about
CellOfRow(r) ==
    <<env.topology.global_nrows - 1 - win.start_i
        - (r.y - env.topology.yllcorner) \div env.topology.cellsize_m,
      (r.x - env.topology.xllcorner) \div env.topology.cellsize_m - win.start_j>>

\* C15: Pass emission.  Once mountain_passes.csv is written it holds, after the
\* header, exactly one line per cell with mountain_pass, weight > 100 and
\* origin(origin(cell)).ground, in row-major order, each with the weight of its
\* cell; a flagged cell of weight exactly 100 has no line.
C15_PassEmission ==
    "mountain_passes.csv" \in DOMAIN files =>
        LET rows == files["mountain_passes.csv"].rows
        IN /\ files["mountain_passes.csv"].header = "name,x,y,weight"
           /\ {CellOfRow(rows[k]) : k \in 1 .. Len(rows)} = PassesToEmit
           /\ Len(rows) = Cardinality(PassesToEmit)
           /\ \A k \in 1 .. Len(rows) :
                 /\ rows[k].weight = mat[CellOfRow(rows[k])].weight
                 /\ rows[k].name = "pass"
                 /\ \A l \in 1 .. Len(rows) :
                       k < l => RowMajorRank(CellOfRow(rows[k])) < RowMajorRank(CellOfRow(rows[l]))
           /\ \A c \in Cells : mat[c].weight = PassWeight => c \notin {CellOfRow(rows[k]) : k \in 1 .. Len(rows)}

\* a written file with the line of a cell of weight 101, and none for a cell of
\* weight 100 that is flagged and whose origin's origin is ground
C15_Witness ==
    /\ "mountain_passes.csv" \in DOMAIN files
    /\ \E k \in 1 .. Len(files["mountain_passes.csv"].rows) :
          files["mountain_passes.csv"].rows[k].weight = PassWeight + 1
    /\ \E c \in Cells :
          /\ mat[c].mountain_pass
          /\ mat[c].weight = PassWeight
          /\ mat[Origin(mat, Origin(mat, c))].ground
    /\ \E c \in Cells :
          /\ mat[c].mountain_pass
          /\ mat[c].weight = PassWeight + 1
          /\ ~ mat[Origin(mat, Origin(mat, c))].ground

\* both altitude files are written
BothWritten == {"output_sub.asc", "local.asc"} \subseteq DOMAIN files

\* update_altitude_for_ground_cells(0) gives the ground cells altitude 0 and
\* changes nothing else
FlattenOnlyGround ==
    (pc = "propagated" /\ pc' = "flattened") =>
        \A c \in Cells :
            mat'[c] = IF mat[c].ground THEN [mat[c] EXCEPT !.altitude = 0] ELSE mat[c]

\* C16 as claimed: update_altitude_for_ground_cells(0) sets altitude to 0 for
\* exactly the ground cells and changes no other field; afterwards the two
\* files carry the same value for every cell that is not ground, and 0 in
\* output_sub.asc and the no-data value in local.asc for every ground cell.
C16_OutputVariants ==
    /\ [][FlattenOnlyGround]_vars
    /\ [](BothWritten =>
            \A c \in Cells :
                IF mat[c].ground
                THEN /\ files["output_sub.asc"].data[c] = 0
                     /\ files["local.asc"].data[c] = files["local.asc"].NODATA_value
                ELSE files["output_sub.asc"].data[c] = files["local.asc"].data[c])

\* C16 as amended: the flattening is as claimed; afterwards the two files
\* carry the same value for every cell whose altitude is not 0, and 0 in
\* output_sub.asc and the no-data value in local.asc for every cell whose
\* altitude is 0: every ground cell, and also a cell that is not ground at
\* altitude exactly 0.
C16_OutputVariantsByAltitude ==
    /\ [][FlattenOnlyGround]_vars
    /\ [](BothWritten =>
            \A c \in Cells :
                /\ mat[c].ground => mat[c].altitude = 0
                /\ IF mat[c].altitude = 0
                   THEN /\ files["output_sub.asc"].data[c] = 0
                        /\ files["local.asc"].data[c] = files["local.asc"].NODATA_value
                   ELSE /\ files["output_sub.asc"].data[c] = files["local.asc"].data[c]
                        /\ files["output_sub.asc"].data[c] = Format(mat[c].altitude))

\* both files written for a grid with a ground cell, a cell in the air above
\* 0, and a home that is not ground at altitude 0
C16_Witness ==
    /\ BothWritten
    /\ \E c \in Cells : mat[c].ground
    /\ \E c \in Cells : ~ mat[c].ground /\ mat[c].altitude > 0
    /\ ~ mat[Home].ground /\ mat[Home].altitude = 0

\* the cell has been given an origin: home by initialize, the others by calculate
Assigned(c) == c = Home \/ c \in written

\* C17: Monotone relaxation.  During propagation a write of calculate to a
\* cell whose origin is already assigned strictly lowers its altitude, whatever
\* the row of that origin: the altitude of an assigned cell never increases.
C17_MonotoneRelaxation ==
    [][pc = "propagating" =>
          \A c \in Cells :
              (Assigned(c) /\ mat'[c] # mat[c]) => mat'[c].altitude < mat[c].altitude]_vars

\* C18: Ground cells are frozen.  During propagation a cell whose ground flag
\* is true has origin = self and altitude = elevation, and no queue step
\* changes its ground flag, altitude or origin.
C18_GroundFrozen ==
    [][pc = "propagating" =>
          \A c \in Cells :
              mat[c].ground =>
                  /\ Origin(mat, c) = c
                  /\ mat[c].altitude = mat[c].elevation
                  /\ mat'[c] = mat[c]]_vars

\* the queue step about to run is for a ground cell in row 0, offered an origin
\* other than its own by its parent
C18_Witness ==
    /\ pc = "propagating"
    /\ stack # <<>>
    /\ Head(stack)[1] = 0
    /\ mat[<<Head(stack)[1], Head(stack)[2]>>].ground
    /\ Origin(mat, <<Head(stack)[3], Head(stack)[4]>>) # <<Head(stack)[1], Head(stack)[2]>>

\* the tuples (n, home) for every in-grid 4-neighbour n of home
HomeNeighbours ==
    SelectSeq([k \in 1 .. 4 |-> <<homei + directions[k][1], homej + directions[k][2],
                                   homei, homej>>],
              LAMBDA t : isInsideMatrix(t[1], t[2]))

\* C19: Seeding.  For every home position, local indices (0,0) included, the
\* initial queue of calculate_safety_altitude holds (n, home) for every in-grid
\* 4-neighbour n of home: a never-assigned cell is not taken for a cell whose
\* origin is the cell (0,0).
C19_SeedingAllNeighbours ==
    [][pc = "cleared" => stack' = HomeNeighbours]_vars

\* the grid with the ground flag of the cells of S cleared
Unflag(m, S) ==
    [c \in DOMAIN m |-> IF c \in S THEN [m[c] EXCEPT !.ground = FALSE] ELSE m[c]]

\* C20: isInView does not check its endpoints.  For every pair of cells the
\* result of isInView is the one it gives with the ground flags of the start
\* cell and of the target cell cleared.
C20_EndpointsNotChecked ==
    \A c \in Cells, t \in Cells :
        isInView(mat, c, t[1], t[2]) = isInView(Unflag(mat, {c, t}), c, t[1], t[2])

----------------------------------------------------------------------------
(* The reference walk of the visibility test between view.from and view.to, *)
(* in closed form: fast-axis position k, slow-axis position SlowSteps(k).   *)

Dx == Abs(view.to[1] - view.from[1])
Dy == Abs(view.to[2] - view.from[2])

XMajor == Dx >= Dy

FastLen == IF XMajor THEN Dx ELSE Dy

SlowLen == IF XMajor THEN Dy ELSE Dx

Threshold == 2 * FastLen

\* the endpoints coincide or are 8-neighbours
Near == Dx <= 1 /\ Dy <= 1

\* slow-axis steps taken by the first k iterations; the error starts at dx
SlowSteps(k) == IF SlowLen = 0 THEN 0 ELSE (Dx + 2 * SlowLen * k - 1) \div Threshold

\* the error term after k iterations
ErrorAfter(k) == Dx + 2 * SlowLen * k - Threshold * SlowSteps(k)

\* the cell f fast-axis steps and s slow-axis steps from view.from towards view.to
At(f, s) ==
    LET xstep == IF view.to[1] > view.from[1] THEN 1 ELSE -1
        ystep == IF view.to[2] > view.from[2] THEN 1 ELSE -1
    IN IF XMajor THEN <<view.from[1] + xstep * f, view.from[2] + ystep * s>>
                 ELSE <<view.from[1] + xstep * s, view.from[2] + ystep * f>>

\* iteration k steps the slow axis too: the line moves diagonally
Diagonal(k) == SlowSteps(k) > SlowSteps(k - 1)

\* the two cells sharing the corner of the diagonal step of iteration k
SlowStepBack(k) == At(k, SlowSteps(k) - 1)
FastStepBack(k) == At(k - 1, SlowSteps(k))

SteppedOnto == {At(k, SlowSteps(k)) : k \in 1 .. FastLen}

CornerOf(k) ==
    IF ~ Diagonal(k) THEN {}
    ELSE IF ErrorAfter(k) + ErrorAfter(k - 1) < Threshold THEN {SlowStepBack(k)}
    ELSE IF ErrorAfter(k) + ErrorAfter(k - 1) > Threshold THEN {FastStepBack(k)}
    ELSE {}

Corners == UNION {CornerOf(k) : k \in 1 .. FastLen}

\* both cells at the corner of the diagonal step of iteration k are ground
Pinch(k) ==
    /\ Diagonal(k)
    /\ mat[SlowStepBack(k)].ground
    /\ mat[FastStepBack(k)].ground

\* C21 as stated: between endpoints more than one cell apart, a diagonal step
\* of the walked line between two ground cells makes isInView return false,
\* whatever the slope, exact diagonals included.
C21_DiagonalPinch ==
    (view # <<>> /\ ~ Near /\ \E k \in 1 .. FastLen : Pinch(k)) => ~ view.result

\* C21 as the code has it: a diagonal step between two ground cells makes
\* isInView return false unless error + errorprev equals the threshold at that
\* step (as at every step of an exact diagonal), where no corner cell is read.
C21_DiagonalPinchOffVertex ==
    (view # <<>> /\ ~ Near
       /\ \E k \in 1 .. FastLen :
             Pinch(k) /\ ErrorAfter(k) + ErrorAfter(k - 1) # Threshold)
    => ~ view.result

\* a dx >= dy walk refused by a pinch alone: no cell it steps onto is ground
C21_Witness ==
    /\ view # <<>>
    /\ ~ Near
    /\ XMajor
    /\ \E k \in 1 .. FastLen :
          Pinch(k) /\ ErrorAfter(k) + ErrorAfter(k - 1) # Threshold
    /\ \A c \in SteppedOnto : ~ mat[c].ground
    /\ ~ view.result

\* C22: isInView returns true for coinciding or neighbouring endpoints, and
\* otherwise false exactly when a ground cell is among the cells the reference
\* walk steps onto and the one corner cell of each slow-axis step (slow step
\* back below the threshold, fast step back above it, none on equality), in
\* the dx >= dy and the dx < dy branch alike.
C22_ReferenceWalk ==
    view # <<>> =>
        (view.result <=> (Near \/ \A c \in SteppedOnto \cup Corners : ~ mat[c].ground))

\* a dx < dy walk refused by a corner cell alone
C22_Witness ==
    /\ view # <<>>
    /\ ~ Near
    /\ ~ XMajor
    /\ \E c \in Corners \ SteppedOnto : mat[c].ground
    /\ \A c \in SteppedOnto : ~ mat[c].ground
    /\ ~ view.result

\* the cell lies in the bounding box of the two endpoints
InBox(c) ==
    /\ c[1] >= IF view.from[1] <= view.to[1] THEN view.from[1] ELSE view.to[1]
    /\ c[1] <= Max(view.from[1], view.to[1])
    /\ c[2] >= IF view.from[2] <= view.to[2] THEN view.from[2] ELSE view.to[2]
    /\ c[2] <= Max(view.from[2], view.to[2])

\* C28: every cell isInView reads, stepped or corner, is a cell of the grid
\* inside the bounding box of the two endpoints, and a walk that runs to its
\* end stands on the target.
C28_WalkInsideBox ==
    view # <<>> =>
        /\ \A k \in 1 .. Len(view.read) :
              view.read[k] \in Cells /\ InBox(view.read[k])
        /\ (view.result /\ view.read # <<>>) => view.read[Len(view.read)] = view.to

\* a completed walk towards row 0 and column 0 that read a corner cell
C28_Witness ==
    /\ view # <<>>
    /\ view.result
    /\ view.to = <<0, 0>>
    /\ Len(view.read) > FastLen
    /\ SlowLen > 0

----------------------------------------------------------------------------
(* The clipping window of Matrix::readFile.                                *)

\* readFile has built the grid
Built == DOMAIN mat # {}

\* the home cell in raster indices
GlobalHome == <<win.start_i + homei, win.start_j + homej>>

\* nodataltitude / cellsize_over_finesse rounded up and rounded down
CeilRadius ==
    (params.nodataltitude + params.cellsize_over_finesse - 1) \div params.cellsize_over_finesse
FloorRadius == params.nodataltitude \div params.cellsize_over_finesse

\* the window is the square of radius r around home clamped to the raster
WindowOfRadius(r) ==
    /\ win.start_i = Max(GlobalHome[1] - r, 0)
    /\ win.end_i = (IF GlobalHome[1] + r <= env.topology.global_nrows - 1
                    THEN GlobalHome[1] + r ELSE env.topology.global_nrows - 1)
    /\ win.start_j = Max(GlobalHome[2] - r, 0)
    /\ win.end_j = (IF GlobalHome[2] + r <= env.topology.global_ncols - 1
                    THEN GlobalHome[2] + r ELSE env.topology.global_ncols - 1)

\* C23: Clipping radius.  The window readFile builds around a home inside the
\* raster has the radius ceil(nodataltitude / (cellsize / finesse)), which is
\* never smaller than the exact quotient.
C23_ClippingRadius ==
    (Built /\ ~ HomeOutsideRaster) =>
        /\ WindowOfRadius(CeilRadius)
        /\ CeilRadius * params.cellsize_over_finesse >= params.nodataltitude

\* C24: Window clamping.  With home inside the raster the window is the
\* square of the clipping radius around home clamped to the raster, it holds
\* home, the grid has end - start + 1 cells on each axis and the local home
\* indices are those of a cell of the grid.
C24_WindowClamping ==
    (Built /\ ~ HomeOutsideRaster) =>
        /\ WindowOfRadius(FloorRadius)
        /\ 0 <= win.start_i /\ win.start_i <= GlobalHome[1]
        /\ GlobalHome[1] <= win.end_i /\ win.end_i <= env.topology.global_nrows - 1
        /\ 0 <= win.start_j /\ win.start_j <= GlobalHome[2]
        /\ GlobalHome[2] <= win.end_j /\ win.end_j <= env.topology.global_ncols - 1
        /\ nrows = win.end_i - win.start_i + 1
        /\ ncols = win.end_j - win.start_j + 1
        /\ DOMAIN mat = CellsOf(nrows, ncols)
        /\ Home \in Cells
        /\ GlobalHome[2] = (env.homex - env.topology.xllcorner) \div env.topology.cellsize_m
        /\ GlobalHome[1] = env.topology.global_nrows - 1
                             - (env.homey - env.topology.yllcorner) \div env.topology.cellsize_m

\* a window cut by the southern edge of the raster and not by the northern one
C24_Witness ==
    /\ pc = "constructed"
    /\ ~ HomeOutsideRaster
    /\ win.start_i > 0
    /\ GlobalHome[1] + FloorRadius > env.topology.global_nrows - 1
    /\ win.end_j < env.topology.global_ncols - 1

----------------------------------------------------------------------------
(* The origin references after propagation.                                *)

\* the cell ends an origin chain: it is ground or its own origin
Root(m, c) == m[c].ground \/ Origin(m, c) = c

RECURSIVE ChainEnds(_, _, _)
\* following origin from c reaches a root without coming back to a cell of seen
ChainEnds(m, c, seen) ==
    IF Root(m, c) THEN TRUE
    ELSE IF Origin(m, c) \in seen \cup {c} THEN FALSE
    ELSE ChainEnds(m, Origin(m, c), seen \cup {c})

RECURSIVE RootOf(_, _)
\* the root the chain of c ends on, when it ends
RootOf(m, c) == IF Root(m, c) THEN c ELSE RootOf(m, Origin(m, c))

\* C27: Origin forest.  After propagation, following origin from any assigned
\* cell never comes back to a cell already visited and ends on a ground cell
\* or on the self-referential home cell.
C27_OriginForest ==
    Propagated =>
        \A c \in Cells :
            Assigned(c) =>
                /\ ChainEnds(mat, c, {})
                /\ RootOf(mat, c) = Home \/ mat[RootOf(mat, c)].ground

\* C29: Clearance is kept.  While and after the queue is processed, every
\* non-ground cell Cell::calculate has written stands strictly above its
\* elevation (raised by distSol), and every ground cell exactly at it.
C29_ClearanceKept ==
    pc \in {"propagating", "propagated"} =>
        \A c \in Cells :
            /\ (c \in written /\ ~ mat[c].ground) => mat[c].altitude > mat[c].elevation
            /\ mat[c].ground => mat[c].altitude = mat[c].elevation

\* a hill overflown by a written cell next to a cell that turned ground
C29_Witness ==
    /\ pc = "propagating"
    /\ params.distSol > 0
    /\ \E c \in written : ~ mat[c].ground /\ mat[c].elevation > params.distSol
    /\ \E c \in written : mat[c].ground

----------------------------------------------------------------------------
(* Pass detection and weighting.                                           *)

\* detect_passes has run
Detected == pc \in {"detected", "weighted", "passes_written", "returned0"}

\* C25: Pass detection.  After detect_passes, mountain_pass is true for
\* exactly the non-ground cells that were assigned an origin and whose origin
\* is ground; a cell propagation never reached is not flagged, whatever the
\* cell (0,0) is.
C25_PassDetection ==
    Detected =>
        \A c \in Cells :
            mat[c].mountain_pass <=>
                (~ mat[c].ground /\ Assigned(c) /\ mat[Origin(mat, c)].ground)

\* C30: A pass is the first step out of a basin.  After propagation and
\* detect_passes every flagged cell is within Chebyshev distance 1 of its
\* origin, which is ground.
C30_PassNextToOrigin ==
    Detected =>
        \A c \in Cells :
            mat[c].mountain_pass =>
                /\ mat[Origin(mat, c)].ground
                /\ Abs(c[1] - mat[c].oi) <= 1
                /\ Abs(c[2] - mat[c].oj) <= 1

RECURSIVE WalkOf(_, _, _)
\* the cells of the origin chain of c up to its first ground or
\* self-referential cell, c included (n bounds the length)
WalkOf(m, c, n) ==
    IF n = 0 \/ Root(m, c) THEN {c}
    ELSE {c} \cup WalkOf(m, Origin(m, c), n - 1)

\* C26: Pass weighting.  From weights 0, weight_passes leaves on each cell the
\* number of start cells whose origin-chain walk, the start cell included,
\* visits it.
C26_PassWeighting ==
    pc = "weighted" =>
        \A x \in Cells :
            mat[x].weight = Cardinality({c \in Cells : x \in WalkOf(mat, c, nrows * ncols)})

====
